---- MODULE Spec2Model ----
(***************************************************************************)
(* bin/colourise-go-test-output.py: a single-pass filter that reads the    *)
(* JSON events of `go test -json` from stdin, buffers the output of every  *)
(* test, and writes colour-wrapped fragments to stdout and stderr.         *)
(*                                                                         *)
(* Strings are sequences of one-character strings, so that concatenation   *)
(* (the f-strings) and the substring test ('FAIL' in output) are computed. *)
(* A JSON value is a record [ty, s]: ty is its JSON type and s its text    *)
(* (what str() / an f-string renders).  stdout and stderr are the          *)
(* sequences of chunks handed to sys.stdout.write / sys.stderr.write by    *)
(* main(); the interpreter's own traceback is not part of them.            *)
(***************************************************************************)
EXTENDS Integers, Sequences, FiniteSets, TLC

\* Number of input lines read from stdin in a run.
MaxLines == 3

-----------------------------------------------------------------------------
\* class Colors
LIGHT_GREY == <<"ESC", "[", "9", "0", "m">>
RED        == <<"ESC", "[", "9", "1", "m">>
YELLOW     == <<"ESC", "[", "9", "3", "m">>
RESET      == <<"ESC", "[", "0", "m">>

\* The literal searched for in line 63.
FAIL == <<"F", "A", "I", "L">>

\* The separator of the f-string in line 45.
SEP == <<":", ":">>

-----------------------------------------------------------------------------
\* JSON values of the Output field.
Str(s) == [ty |-> "string", s |-> s]
Num(s) == [ty |-> "number", s |-> s]

\* data.get('Output', ''): an absent field reads as the empty string.
Absent == Str(<<>>)

\* Python truthiness of a value (`if output:`, `if test and output:`).
Truthy(v) == IF v.ty = "string" THEN v.s # <<>> ELSE v.s # <<"0">>

\* `sub in s` for two strings.
Contains(s, sub) ==
  \E i \in 1..(Len(s) - Len(sub) + 1) : SubSeq(s, i, i + Len(sub) - 1) = sub

\* f"{colour}{text}{Colors.RESET}"
Wrap(colour, text) == colour \o text \o RESET

\* test_key = f"{package}::{test}" if test else package
TestKey(package, test) == IF test # <<>> THEN package \o SEP \o test ELSE package

-----------------------------------------------------------------------------
\* Input alphabet.
P    == <<"p">>
PT   == <<"p", ":", ":", "t">>
T    == <<"t">>
BOOM == <<"b", "o", "o", "m", "\n">>
FAILMSG == <<"-", "-", "-", " ", "F", "A", "I", "L", ":", " ", "t", "\n">>
FIVE == <<"5">>

Packages == {P, PT}
Tests    == {<< >>, T}
Actions  == {"run", "output", "pass", "fail"}
Outputs  == {Absent, Str(BOOM), Str(FAILMSG)}

\* Decoded records (json.loads returned a dict) whose fields are strings.
TextEvents == [kind : {"record"}, Package : Packages, Test : Tests,
               Action : Actions, Output : Outputs, Elapsed : BOOLEAN]

\* Decoded records whose Output is a JSON number.
NumberEvents == [kind : {"record"}, Package : {P}, Test : {T},
                 Action : {"output", "fail"}, Output : {Num(FIVE)}, Elapsed : {FALSE}]

Events == TextEvents \cup NumberEvents

\* Lines that are not records carry the default fields.
Other(kind) == [kind |-> kind, Package |-> << >>, Test |-> << >>, Action |-> "",
                Output |-> Absent, Elapsed |-> FALSE]

Ev(package, test, action, output, elapsed) ==
  [kind |-> "record", Package |-> package, Test |-> test, Action |-> action,
   Output |-> output, Elapsed |-> elapsed]

\* End-to-end scenario B of the specification.
ScenarioB == << Ev(P, T, "run", Absent, FALSE),
                Ev(P, T, "output", Str(BOOM), FALSE),
                Ev(P, T, "fail", Absent, TRUE) >>

\* Progress of the input through a scenario: the number of lines matched so far,
\* or -1 once the input differs from it.
Advance(m, scen, line) ==
  IF m >= 0 /\ m < Len(scen) /\ line = scen[m + 1] THEN m + 1 ELSE -1

\* History of failures: x joins on a fail record and leaves on a record with Elapsed.
Mark(set, line, x) ==
  IF line.kind # "record" THEN set
  ELSE IF line.Elapsed THEN set \ {x}
  ELSE IF line.Action = "fail" THEN set \cup {x}
  ELSE set

\* Every test key of the alphabet.
Keys == {TestKey(p, t) : p \in Packages, t \in Tests}

VARIABLES
  test_buffers,     \* defaultdict(list): function from the keys present to sequences of values
  failed_tests,     \* set of test keys
  any_test_failed,  \* BOOLEAN
  stdout,           \* chunks written to sys.stdout, in order
  stderr,           \* chunks written to sys.stderr, in order
  pc,               \* "loop" | "done" (main returned) | "raised" (uncaught exception)
  exit_status,      \* -1 while running, then the status of the process
  lines_read,       \* number of lines read from stdin
  \* History of the input (not program state):
  last,             \* the last line read
  fail_seen,        \* some record read so far had Action = "fail"
  outputs_seen,     \* the non-empty Output values of the records read so far, in order
  appended,         \* per key: the Outputs of its records with Test and Output non-empty
                    \* since its last record with Elapsed
  matchedB,         \* progress of the input through ScenarioB
  failed_since,     \* the keys with a fail record since their last record with Elapsed
  failed_pairs      \* the same per <<Package, Test>> pair instead of per key

prog == <<test_buffers, failed_tests, any_test_failed, stdout, stderr, pc, exit_status>>
hist == <<last, fail_seen, outputs_seen, appended, matchedB, failed_since, failed_pairs>>
vars == <<prog, lines_read, hist>>

Init ==
  /\ test_buffers = << >>
  /\ failed_tests = {}
  /\ any_test_failed = FALSE
  /\ stdout = << >>
  /\ stderr = << >>
  /\ pc = "loop"
  /\ exit_status = -1
  /\ lines_read = 0
  /\ last = Other("none")
  /\ fail_seen = FALSE
  /\ outputs_seen = << >>
  /\ appended = [k \in Keys |-> << >>]
  /\ matchedB = 0
  /\ failed_since = {}
  /\ failed_pairs = {}

\* The for loop of line 29 hands the next line to the body.
Read(line) ==
  /\ pc = "loop"
  /\ lines_read < MaxLines
  /\ lines_read' = lines_read + 1
  /\ last' = line
  /\ fail_seen' = (fail_seen \/ (line.kind = "record" /\ line.Action = "fail"))
  /\ outputs_seen' = IF line.kind = "record" /\ line.Output # Absent
                     THEN Append(outputs_seen, line.Output) ELSE outputs_seen
  /\ appended' = IF line.kind # "record" THEN appended
                 ELSE LET k == TestKey(line.Package, line.Test)
                      IN  IF line.Elapsed THEN [appended EXCEPT ![k] = << >>]
                          ELSE IF line.Test # << >> /\ line.Output # Absent
                               THEN [appended EXCEPT ![k] = Append(@, line.Output)]
                               ELSE appended
  /\ matchedB' = Advance(matchedB, ScenarioB, line)
  /\ failed_since' = Mark(failed_since, line, TestKey(line.Package, line.Test))
  /\ failed_pairs' = Mark(failed_pairs, line, <<line.Package, line.Test>>)

-----------------------------------------------------------------------------
\* Helpers on the dictionary.
Put(d, k, v) == [x \in (DOMAIN d) \cup {k} |-> IF x = k THEN v ELSE d[x]]

\* del test_buffers[test_key] if present (lines 79-80)
Del(d, k) == [x \in (DOMAIN d) \ {k} |-> d[x]]

\* Variant of Discard: the failed set is never cleaned.
DiscardNothing(s, k) == s

\* Variant of Discard: a completion signal empties the failed set.
DiscardAll(s, k) == {}

\* failed_tests.discard(test_key) (line 81)
Discard(s, k) == s \ {k}

\* Variant of BufAppend: the entry is assigned instead of appended to.
BufAppendReplace(d, k, v) == Put(d, k, <<v>>)

\* test_buffers[test_key].append(output)   (defaultdict: creates the entry)
BufAppend(d, k, v) == Put(d, k, IF k \in DOMAIN d THEN Append(d[k], v) ELSE <<v>>)

\* test_buffers[test_key] read in line 56 (defaultdict: creates an empty entry)
BufTouch(d, k) == IF k \in DOMAIN d THEN d ELSE Put(d, k, << >>)

\* Variants of FlushChunks: the buffer replayed backwards; in the wrong colour.
FlushReversed(buf) == [i \in 1..Len(buf) |-> Wrap(YELLOW, buf[Len(buf) + 1 - i].s)]
FlushRed(buf) == [i \in 1..Len(buf) |-> Wrap(RED, buf[i].s)]
\* The replay leaving out the newest fragment.
FlushAllButLast(buf) == [i \in 1..(Len(buf) - 1) |-> Wrap(YELLOW, buf[i].s)]

\* The writes of the loop of lines 56-58.
FlushChunks(buf) == [i \in 1..Len(buf) |-> Wrap(YELLOW, buf[i].s)]

\* Variants of Classify: the failed set tested before the FAIL literal; the
\* regular branch writing to the wrong stream; the regular branch in the wrong colour.
ClassifyFailedFirst(text, test_key, failed) ==
  IF test_key \in failed THEN [stream |-> "stderr", chunk |-> Wrap(YELLOW, text)]
  ELSE IF Contains(text, FAIL) THEN [stream |-> "stderr", chunk |-> Wrap(RED, text)]
  ELSE [stream |-> "stdout", chunk |-> Wrap(LIGHT_GREY, text)]
ClassifyRegularToStderr(text, test_key, failed) ==
  IF Contains(text, FAIL) THEN [stream |-> "stderr", chunk |-> Wrap(RED, text)]
  ELSE IF test_key \in failed THEN [stream |-> "stderr", chunk |-> Wrap(YELLOW, text)]
  ELSE [stream |-> "stderr", chunk |-> Wrap(LIGHT_GREY, text)]
ClassifyRegularYellow(text, test_key, failed) ==
  IF Contains(text, FAIL) THEN [stream |-> "stderr", chunk |-> Wrap(RED, text)]
  ELSE [stream |-> IF test_key \in failed THEN "stderr" ELSE "stdout",
        chunk |-> Wrap(YELLOW, text)]

\* Variant of Classify: the failed set is not consulted.
ClassifyIgnoreFailed(text, test_key, failed) ==
  IF Contains(text, FAIL) THEN [stream |-> "stderr", chunk |-> Wrap(RED, text)]
  ELSE [stream |-> "stdout", chunk |-> Wrap(LIGHT_GREY, text)]

\* Lines 61-75: the stream and the chunk of the classification of a string fragment.
Classify(text, test_key, failed) ==
  IF Contains(text, FAIL) THEN [stream |-> "stderr", chunk |-> Wrap(RED, text)]
  ELSE IF test_key \in failed THEN [stream |-> "stderr", chunk |-> Wrap(YELLOW, text)]
  ELSE [stream |-> "stdout", chunk |-> Wrap(LIGHT_GREY, text)]

\* Variant of SetFlag: the flag follows the last record.
SetFlagLast(flag, action) == action = "fail"

\* Line 54 (only under the test of line 52).
SetFlag(flag, action) == IF action = "fail" THEN TRUE ELSE flag

\* return 1 if any_test_failed else 0 (line 84), handed to sys.exit (line 88).
ExitCode(flag) == IF flag THEN 1 ELSE 0

\* The status of a process that dies of an uncaught exception.
UncaughtExit == 1

-----------------------------------------------------------------------------
\* Lines 30-32: a blank line (empty after strip) is skipped.
SkipBlank ==
  /\ Read(Other("blank"))
  /\ UNCHANGED prog

\* Variant of SkipUndecodable: the decode error is not caught.
SkipUndecodableRaises ==
  /\ Read(Other("garbage"))
  /\ pc' = "raised"
  /\ exit_status' = UncaughtExit
  /\ UNCHANGED <<test_buffers, failed_tests, any_test_failed, stdout, stderr>>

\* Lines 34-37: json.loads raises JSONDecodeError, the line is skipped.
SkipUndecodable ==
  /\ Read(Other("garbage"))
  /\ UNCHANGED prog

\* Lines 35 and 39: json.loads returns a value that is not a dict (a number, a
\* string, an array, null); data.get raises AttributeError, which nothing catches.
RaiseNotRecord ==
  /\ Read(Other("scalar"))
  /\ pc' = "raised"
  /\ exit_status' = UncaughtExit
  /\ UNCHANGED <<test_buffers, failed_tests, any_test_failed, stdout, stderr>>

\* Lines 39-81: one decoded record.
ProcessEvent(e) ==
  /\ Read(e)
  /\ LET test_key == TestKey(e.Package, e.Test)
         \* lines 47-49
         buf1 == IF e.Test # << >> /\ Truthy(e.Output)
                 THEN BufAppend(test_buffers, test_key, e.Output)
                 ELSE test_buffers
         \* lines 52-58
         isFail  == e.Action = "fail"
         failed1 == IF isFail THEN failed_tests \cup {test_key} ELSE failed_tests
         flag1   == SetFlag(any_test_failed, e.Action)
         buf2    == IF isFail THEN BufTouch(buf1, test_key) ELSE buf1
         err1    == IF isFail THEN stderr \o FlushChunks(buf2[test_key]) ELSE stderr
         \* lines 61-75
         hasOut  == Truthy(e.Output)
         raises  == hasOut /\ e.Output.ty # "string"   \* 'FAIL' in output: TypeError
         c       == Classify(e.Output.s, test_key, failed1)
         err2    == IF hasOut /\ c.stream = "stderr" THEN Append(err1, c.chunk) ELSE err1
         out2    == IF hasOut /\ c.stream = "stdout" THEN Append(stdout, c.chunk) ELSE stdout
     IN  IF raises
         THEN /\ test_buffers' = buf2
              /\ failed_tests' = failed1
              /\ any_test_failed' = flag1
              /\ stderr' = err1
              /\ stdout' = stdout
              /\ pc' = "raised"
              /\ exit_status' = UncaughtExit
         ELSE /\ stderr' = err2
              /\ stdout' = out2
              /\ any_test_failed' = flag1
              \* lines 78-81
              /\ test_buffers' = IF e.Elapsed THEN Del(buf2, test_key) ELSE buf2
              /\ failed_tests' = IF e.Elapsed THEN Discard(failed1, test_key) ELSE failed1
              /\ UNCHANGED <<pc, exit_status>>

\* Line 29 ends (end of stdin), line 84 returns, line 88 exits with that status.
EndOfStream ==
  /\ pc = "loop"
  /\ pc' = "done"
  /\ exit_status' = ExitCode(any_test_failed)
  /\ UNCHANGED <<test_buffers, failed_tests, any_test_failed, stdout, stderr, lines_read, hist>>

Next ==
  \/ SkipBlank
  \/ SkipUndecodable
  \/ RaiseNotRecord
  \/ \E e \in Events : ProcessEvent(e)
  \/ EndOfStream

Spec == Init /\ [][Next]_vars

-----------------------------------------------------------------------------
\* Vocabulary of the properties.

\* The step reads a line (every step but EndOfStream).
IsRead == lines_read' = lines_read + 1

IsEvent(l) == l.kind = "record"
Key(l) == TestKey(l.Package, l.Test)

\* The record carries a non-empty text fragment.
HasText(l) == IsEvent(l) /\ l.Output.ty = "string" /\ l.Output.s # << >>
HasFAIL(l) == HasText(l) /\ Contains(l.Output.s, FAIL)

\* The three markers around a text.
Grey(text)   == LIGHT_GREY \o text \o RESET
Red(text)    == RED \o text \o RESET
Yellow(text) == YELLOW \o text \o RESET

IsWrapped(chunk, colour) ==
  /\ Len(chunk) >= Len(colour) + Len(RESET)
  /\ SubSeq(chunk, 1, Len(colour)) = colour
  /\ SubSeq(chunk, Len(chunk) - Len(RESET) + 1, Len(chunk)) = RESET

Count(seq, x) == Cardinality({i \in 1..Len(seq) : seq[i] = x})

\* C1: a record whose Output contains FAIL writes the fragment to stderr in the
\* red marker as the last write of its step, writes nothing to stdout, and no
\* chunk of stdout ever contains FAIL.
C1_FailTextToStderr ==
  [][ /\ (IsRead /\ HasFAIL(last')) =>
           /\ Len(stderr') > Len(stderr)
           /\ stderr'[Len(stderr')] = Red(last'.Output.s)
           /\ stdout' = stdout
      /\ \A i \in 1..Len(stdout') : ~Contains(stdout'[i], FAIL) ]_vars

\* Scenario C: a FAIL fragment of a key that never failed is on stderr in red.
C1_Witness ==
  /\ ~fail_seen
  /\ last = Ev(P, T, "output", Str(FAILMSG), FALSE)
  /\ stderr = << Red(FAILMSG) >>
  /\ stdout = << >>

\* C2: a record with a non-empty Output without FAIL whose key is not in the
\* failed set at classification (not there before, and the record is no fail)
\* appends exactly the grey-wrapped fragment to stdout and leaves stderr alone.
C2_RegularToStdout ==
  [][ (IsRead /\ HasText(last') /\ ~HasFAIL(last')
         /\ Key(last') \notin failed_tests /\ last'.Action # "fail") =>
        /\ stdout' = Append(stdout, Grey(last'.Output.s))
        /\ stderr' = stderr ]_vars

C2_Witness ==
  /\ fail_seen
  /\ last = Ev(PT, T, "output", Str(BOOM), FALSE)
  /\ failed_tests = {TestKey(P, T)}
  /\ stdout = << Grey(BOOM) >>

\* C3: a fail record writes to stderr, first, every fragment appended for its
\* key since the key's last completion signal (its own included), in append
\* order and in the yellow marker, and only then its classification write.
C3_FlushInOrder ==
  [][ (IsRead /\ IsEvent(last') /\ last'.Action = "fail") =>
        LET k    == Key(last')
            own  == IF last'.Test # << >> /\ last'.Output # Absent
                    THEN << last'.Output >> ELSE << >>
            buf  == appended[k] \o own
            n    == Len(stderr)
            tail == IF HasText(last') THEN 1 ELSE 0
        IN  /\ Len(stderr') = n + Len(buf) + tail
            /\ SubSeq(stderr', 1, n) = stderr
            /\ \A i \in 1..Len(buf) : stderr'[n + i] = Yellow(buf[i].s)
            /\ tail = 1 => stderr'[n + Len(buf) + 1] \in
                             {Red(last'.Output.s), Yellow(last'.Output.s)} ]_vars

C3_Witness ==
  /\ last = Ev(P, T, "fail", Absent, FALSE)
  /\ stderr = << Red(FAILMSG), Yellow(BOOM), Yellow(FAILMSG) >>

\* C4: the flag never falls, rises on fail records and on nothing else, and the
\* status returned at end of stream is 1 exactly when a fail record was read.
C4_ExitFlag ==
  [][ /\ any_test_failed => any_test_failed'
      /\ (any_test_failed' /\ ~any_test_failed) =>
           (IsRead /\ IsEvent(last') /\ last'.Action = "fail")
      /\ (IsRead /\ IsEvent(last') /\ last'.Action = "fail") => any_test_failed'
      /\ pc' = "done" => /\ exit_status' \in {0, 1}
                         /\ exit_status' = 1 <=> fail_seen' ]_vars

C4_Witness ==
  /\ pc = "done"
  /\ exit_status = 1
  /\ last = Ev(P, T, "pass", Absent, TRUE)
  /\ lines_read = 3

\* C5: after a record with Elapsed, its key has no buffer entry and is not in
\* the failed set; the next record, when it is for the same key, goes to stdout
\* in grey if it is regular output, and replays nothing older than itself if it
\* is a fail.
C5_CompletionClears ==
  [][ IsRead =>
        /\ (IsEvent(last') /\ last'.Elapsed /\ pc' = "loop") =>
             /\ Key(last') \notin DOMAIN test_buffers'
             /\ Key(last') \notin failed_tests'
        /\ (IsEvent(last) /\ last.Elapsed /\ IsEvent(last') /\ Key(last') = Key(last)) =>
             /\ (HasText(last') /\ ~HasFAIL(last') /\ last'.Action # "fail") =>
                  /\ stdout' = Append(stdout, Grey(last'.Output.s))
                  /\ stderr' = stderr
             /\ (last'.Action = "fail" /\ last'.Output = Absent) => stderr' = stderr
             /\ last'.Action = "fail" =>
                  \A i \in (Len(stderr) + 1)..Len(stderr') :
                     stderr'[i] \in {Red(last'.Output.s), Yellow(last'.Output.s)} ]_vars

\* A fail record with Elapsed and a buffered fragment of its own leaves nothing behind.
C5_Witness ==
  /\ pc = "loop"
  /\ last = Ev(P, T, "fail", Str(BOOM), TRUE)
  /\ lines_read = 2
  /\ stderr = << Yellow(BOOM), Yellow(BOOM), Yellow(BOOM) >>
  /\ test_buffers = << >>
  /\ failed_tests = {}

\* C6: a blank or undecodable line writes nothing, changes no program state,
\* and the loop goes on.
C6_SkippedLines ==
  [][ (IsRead /\ last'.kind \in {"blank", "garbage"}) =>
        /\ UNCHANGED <<test_buffers, failed_tests, any_test_failed, stdout, stderr>>
        /\ pc' = "loop" ]_vars

C6_Witness ==
  /\ last.kind = "garbage"
  /\ pc = "loop"
  /\ failed_tests # {}
  /\ DOMAIN test_buffers # {}
  /\ stdout # << >>

\* C7: the loop never aborts: no line makes the program raise.
C7_NeverAborts == pc # "raised"

\* C8 (as stated): after scenario B, boom is on stderr twice, both times in the
\* yellow marker, and the exit status is 1.
C8_ScenarioB_Twice ==
  (pc = "done" /\ lines_read = Len(ScenarioB) /\ matchedB = Len(ScenarioB)) =>
    /\ Count(stderr, Yellow(BOOM)) = 2
    /\ exit_status = 1

\* C8 (amended): after scenario B, boom is on stdout once in grey (written when
\* it arrived) and on stderr once in yellow (the replay); the exit status is 1.
C8_ScenarioB_Once ==
  (pc = "done" /\ lines_read = Len(ScenarioB) /\ matchedB = Len(ScenarioB)) =>
    /\ stdout = << Grey(BOOM) >>
    /\ stderr = << Yellow(BOOM) >>
    /\ exit_status = 1

C8_Witness ==
  pc = "done" /\ lines_read = Len(ScenarioB) /\ matchedB = Len(ScenarioB)

\* C9: when no record read had action fail and no Output contained FAIL, stderr
\* is empty, stdout is the grey-wrapped non-empty Outputs in input order, and
\* the process, once over, has exit status 0.
C9_CleanRun ==
  (~fail_seen /\ \A i \in 1..Len(outputs_seen) : ~Contains(outputs_seen[i].s, FAIL)) =>
    /\ stderr = << >>
    /\ stdout = [i \in 1..Len(outputs_seen) |-> Grey(outputs_seen[i].s)]
    /\ pc # "loop" => exit_status = 0

\* C10: every chunk of stdout is grey-wrapped and every chunk of stderr is red-
\* or yellow-wrapped; no chunk of stderr opens with the grey marker and no chunk
\* of stdout opens with the red or the yellow one.
C10_MarkersPerStream ==
  /\ \A i \in 1..Len(stdout) :
       /\ IsWrapped(stdout[i], LIGHT_GREY)
       /\ ~IsWrapped(stdout[i], RED) /\ ~IsWrapped(stdout[i], YELLOW)
  /\ \A i \in 1..Len(stderr) :
       /\ IsWrapped(stderr[i], RED) \/ IsWrapped(stderr[i], YELLOW)
       /\ ~IsWrapped(stderr[i], LIGHT_GREY)

C10_Witness ==
  /\ stdout # << >>
  /\ \E i \in 1..Len(stderr) : IsWrapped(stderr[i], RED)
  /\ \E i \in 1..Len(stderr) : IsWrapped(stderr[i], YELLOW)

\* C11: a record with a non-empty Output gets exactly one classification write
\* (the last write of its step, beyond the replay of a fail); on a fail record
\* with a Test the fragment is on stderr twice in a row: the end of the replay
\* in yellow, then the classification in red (FAIL) or yellow.
C11_OwnFragmentTwice ==
  [][ (IsRead /\ HasText(last')) =>
        LET o       == last'.Output.s
            k       == Key(last')
            isFail  == last'.Action = "fail"
            own     == IF last'.Test # << >> THEN 1 ELSE 0
            flushed == IF isFail THEN Len(appended[k]) + own ELSE 0
            n       == Len(stderr')
        IN  /\ (Len(stdout') - Len(stdout)) + (Len(stderr') - Len(stderr)) = flushed + 1
            /\ \/ stdout' = Append(stdout, Grey(o)) /\ stderr' = stderr
               \/ stdout' = stdout /\ n > Len(stderr) /\ stderr'[n] \in {Red(o), Yellow(o)}
            /\ (isFail /\ own = 1) =>
                 /\ stdout' = stdout
                 /\ n >= Len(stderr) + 2
                 /\ stderr'[n - 1] = Yellow(o)
                 /\ stderr'[n] = IF HasFAIL(last') THEN Red(o) ELSE Yellow(o) ]_vars

C11_Witness ==
  /\ last = Ev(P, T, "fail", Str(FAILMSG), FALSE)
  /\ stderr = << Yellow(FAILMSG), Red(FAILMSG) >>
  /\ stdout = << >>

\* C12: every key with an entry in test_buffers had a record with Test and
\* Output non-empty since its last record with Elapsed; a fail record for a key
\* without buffered output creates no entry.
C12_EntriesOnlyFromOutput ==
  \A k \in DOMAIN test_buffers : appended[k] # << >>

\* C13: a key joins failed_tests only on a fail record for that key and leaves
\* it only on a record for that key that carries Elapsed; records for other
\* keys, skipped lines and the end of the stream leave its membership alone.
C13_FailedSetMembership ==
  [][ \A k \in Keys :
        /\ (k \in failed_tests' /\ k \notin failed_tests) =>
             (IsRead /\ IsEvent(last') /\ Key(last') = k /\ last'.Action = "fail")
        /\ (k \in failed_tests /\ k \notin failed_tests') =>
             (IsRead /\ IsEvent(last') /\ Key(last') = k /\ last'.Elapsed) ]_vars

\* A failed key survives the completion signal of another key.
C13_Witness ==
  /\ last = Ev(PT, T, "fail", Absent, TRUE)
  /\ failed_tests = {TestKey(P, T)}
  /\ lines_read = 2

IsPrefix(a, b) == Len(a) <= Len(b) /\ SubSeq(b, 1, Len(a)) = a

\* C14: until a record with Elapsed for its key, a buffer only grows at its end:
\* every step leaves each entry a prefix of what it becomes, a record with Test
\* and Output appends its fragment (after a fail too), and a fail record replays
\* every fragment buffered before it (so a second fail replays them again).
C14_BufferAppendOnly ==
  [][ /\ \A k \in DOMAIN test_buffers :
           \/ IsRead /\ IsEvent(last') /\ Key(last') = k /\ last'.Elapsed
           \/ k \in DOMAIN test_buffers' /\ IsPrefix(test_buffers[k], test_buffers'[k])
      /\ (IsRead /\ IsEvent(last') /\ last'.Test # << >> /\ last'.Output # Absent
            /\ ~last'.Elapsed) =>
           LET k   == Key(last')
               old == IF k \in DOMAIN test_buffers THEN test_buffers[k] ELSE << >>
           IN  k \in DOMAIN test_buffers' /\ test_buffers'[k] = Append(old, last'.Output)
      /\ (IsRead /\ IsEvent(last') /\ last'.Action = "fail"
            /\ Key(last') \in DOMAIN test_buffers) =>
           LET old == test_buffers[Key(last')]
           IN  /\ Len(stderr') >= Len(stderr) + Len(old)
               /\ \A i \in 1..Len(old) : stderr'[Len(stderr) + i] = Yellow(old[i].s) ]_vars

\* A second fail for the key replays the fragment of the first fail and the
\* output that arrived in between.
C14_Witness ==
  /\ last = Ev(P, T, "fail", Absent, FALSE)
  /\ lines_read = 3
  /\ stderr = << Yellow(BOOM), Yellow(BOOM), Red(FAILMSG), Yellow(BOOM), Yellow(FAILMSG) >>
  /\ test_buffers[TestKey(P, T)] = << Str(BOOM), Str(FAILMSG) >>

\* C15: from a fail record for a key up to and including its next record with
\* Elapsed, every text Output for that key is written to stderr and not to
\* stdout: in red when it contains FAIL, in yellow otherwise; a text Output
\* without FAIL for a key outside that span, on a record that is no fail, goes
\* to stdout in grey.
C15_FailedKeyOutputYellow ==
  [][ /\ (IsRead /\ HasText(last') /\ Key(last') \in failed_since) =>
           /\ stdout' = stdout
           /\ Len(stderr') > Len(stderr)
           /\ stderr'[Len(stderr')] =
                IF HasFAIL(last') THEN Red(last'.Output.s) ELSE Yellow(last'.Output.s)
      /\ (IsRead /\ HasText(last') /\ ~HasFAIL(last') /\ Key(last') \notin failed_since
            /\ last'.Action # "fail") =>
           /\ stdout' = Append(stdout, Grey(last'.Output.s))
           /\ stderr' = stderr ]_vars

\* Output that arrives after the fail of its key, with no completion in between.
C15_Witness ==
  /\ last = Ev(P, T, "output", Str(BOOM), FALSE)
  /\ lines_read = 2
  /\ failed_tests = {TestKey(P, T)}
  /\ stderr = << Yellow(BOOM) >>
  /\ stdout = << >>

Pair(l) == <<l.Package, l.Test>>

\* C16: records of two different <<Package, Test>> pairs share nothing.  A fail
\* record replays only what its own pair produced (in this alphabet the pairs
\* with a Test have keys of their own, and a pair without Test buffers nothing);
\* regular output of a pair that has not failed since its last completion goes
\* to stdout in grey; a record of one pair removes neither the failed state nor
\* the buffer of another pair.
C16_PairIsolation ==
  [][ (IsRead /\ IsEvent(last')) =>
        LET k == Key(last')
        IN  /\ last'.Action = "fail" =>
                 LET own == IF last'.Test # << >> /\ last'.Output # Absent
                            THEN << last'.Output >> ELSE << >>
                     buf == IF last'.Test # << >> THEN appended[k] \o own ELSE << >>
                 IN  Len(stderr') = Len(stderr) + Len(buf) + (IF HasText(last') THEN 1 ELSE 0)
            /\ (HasText(last') /\ ~HasFAIL(last') /\ last'.Action # "fail"
                  /\ Pair(last') \notin failed_pairs) =>
                 /\ stdout' = Append(stdout, Grey(last'.Output.s))
                 /\ stderr' = stderr
            /\ \A q \in failed_pairs \ {Pair(last')} : TestKey(q[1], q[2]) \in failed_tests'
            /\ \A x \in DOMAIN test_buffers :
                 (appended[x] # << >> /\ last'.Test = << >>) => x \in DOMAIN test_buffers' ]_vars

\* C17: a record without Output, without Elapsed and with an action other than
\* fail writes nothing and leaves test_buffers, failed_tests and the flag as
\* they were; a record with an Output but without Test leaves test_buffers as
\* it was.
C17_Frame ==
  [][ (IsRead /\ IsEvent(last')) =>
        /\ (last'.Output = Absent /\ last'.Action # "fail" /\ ~last'.Elapsed) =>
             UNCHANGED <<test_buffers, failed_tests, any_test_failed, stdout, stderr>>
        /\ (last'.Output # Absent /\ last'.Test = << >>) =>
             test_buffers' = test_buffers ]_vars

====
